---- MODULE Spec2Model ----
(***************************************************************************)
(* A model of poni's vSphere provider (poni/cloud_vsphere.py): the         *)
(* instance registry, the four generator workflows (_clone_vm, _revert_vm, *)
(* _delete_vm, _update_vm) and the cooperative scheduler loops of          *)
(* wait_instances and terminate_instances, run against a small model of    *)
(* the vSphere server the provider talks to through pyvsphere.             *)
(***************************************************************************)
EXTENDS Integers, Sequences, FiniteSets, TLC

\* ------------------------------------------------------------------ bounds
\* Number of provider calls (init_instance, wait_instances,
\* terminate_instances) one behaviour makes.
MaxCalls == 4
\* Longest batch of cloud property dicts passed to one call.
MaxBatch == 2
\* Number of provider calls of one behaviour of SpecBatch.
MaxBatchCalls == 1
\* Number of provider calls of one behaviour of SpecLive.
MaxLiveCalls == 1
\* Number of provider calls of one behaviour of SpecDup.
MaxDupCalls == 1

\* Instance ids; cloud_prop['vm_name'] is the id and the resource name.
Ids == {"a", "b"}
\* cloud_prop['base_vm_name'] of each instance.
BaseOf(i) == IF i = "a" THEN "img1" ELSE "img2"
Bases == {BaseOf(i) : i \in Ids}
\* Guest addresses the server may report; "" is "no address reported".
IPs == {"ip1", "ip2"}

VARIABLES
    vms,          \* server: name -> resource (exists, power, snap, ip)
    baseExists,   \* server: base image name -> does the image exist
    rtask,        \* server: id -> the task last submitted by the workflow of id
    instances,    \* self.instances
    base_vm_cache,    \* self._base_vm_cache (the names that are cached)
    call,         \* the provider method last entered: "none", "init", "wait", "terminate"
    status,       \* of that call: "none", "running", "returned", "error"
    wait_state,    \* wait_instances' wait_state argument
    jobs,         \* local jobs dict: id -> the generator (kind, position, local vm)
    tasks,        \* local tasks dict: id -> the handle the generator last yielded
    order,        \* key order of the jobs dict
    todo,         \* what is left of list(jobs) in the running for loop
    loopPc,       \* position in the scheduler loop: "top", "resume", "sleep"
    updated_props, \* local updated_props dict: id -> record
    ncalls,       \* number of provider calls started
    \* observation only (nothing below is read by the program)
    resolved,     \* id -> the vm_state _get_instance derived when it first resolved id
    dispatched,   \* id -> for the ids of the call: the vm_state the call found in the
                  \*       registry, and the kind of workflow it dispatched
    ops,          \* the remote operations the call submitted, in order
    finished,     \* ids whose generator raised StopIteration in the call
    nrefresh,     \* update_many_objects calls of the current loop iteration
    refreshArg,   \* keys of the dict passed to the last update_many_objects
    created,      \* id -> number of generator objects the call created for id
    sent,         \* id -> the generator objects of id the call has sent to
    prev          \* summary of the call before the current one

srv == <<vms, baseExists, rtask>>
reg == <<instances, base_vm_cache>>
loc == <<jobs, tasks, order, todo, loopPc, updated_props>>
obs == <<resolved, dispatched, ops, finished, nrefresh, refreshArg, created, sent, prev>>
vars == <<vms, baseExists, rtask, instances, base_vm_cache, call, status, wait_state,
          jobs, tasks, order, todo, loopPc, updated_props, ncalls,
          resolved, dispatched, ops, finished, nrefresh, refreshArg, created, sent,
          prev>>

\* ------------------------------------------------------------ the server
\* snap is the name of the first root snapshot: "none" when the resource has
\* no snapshot at all, "pristine", or "other".
NoVm == [exists |-> FALSE, power |-> "poweredOff", snap |-> "none", ip |-> ""]
NewVm == [exists |-> TRUE, power |-> "poweredOff", snap |-> "none", ip |-> ""]

Vm(p, s, a) == [exists |-> TRUE, power |-> p, snap |-> s, ip |-> a]

\* The resources the server may hold when the provider is constructed: a
\* resource that is not powered on reports no guest address.
VmStates ==
    {NoVm} \cup
    {Vm(p, s, "") : p \in {"poweredOff", "suspended"},
                    s \in {"none", "other", "pristine"}} \cup
    {Vm("poweredOn", s, a) : s \in {"none", "other", "pristine"}, a \in {"", "ip1"}}

NoTask == [op |-> "none", state |-> "idle"]

\* ------------------------------------------------------------ handles
\* A handle is what pyvsphere hands back: None, a VM object (with the
\* properties fetched for it: summary carries power state and guest address as
\* of the fetch) or a Task object (info is absent until the first refresh).
NoHandle == [kind |-> "none", name |-> "", op |-> "", info |-> "",
             summary |-> FALSE, ip |-> "", power |-> ""]

VmHandle(n, withSummary) ==
    [kind |-> "vm", name |-> n, op |-> "", info |-> "",
     summary |-> withSummary,
     ip |-> IF withSummary THEN vms[n].ip ELSE "",
     power |-> IF withSummary THEN vms[n].power ELSE ""]

TaskHandle(i, o) ==
    [kind |-> "task", name |-> i, op |-> o, info |-> "",
     summary |-> FALSE, ip |-> "", power |-> ""]

\* vim.find_vm_by_name(name, properties)
find_vm_by_name(n, withSummary) ==
    IF vms[n].exists THEN VmHandle(n, withSummary) ELSE NoHandle

\* One object of vim.update_many_objects: the server's current view of it.
RefreshOne(h) ==
    CASE h.kind = "task" -> [h EXCEPT !.info = rtask[h.name].state]
      [] h.kind = "vm" /\ vms[h.name].exists ->
            [h EXCEPT !.summary = TRUE, !.ip = vms[h.name].ip,
                      !.power = vms[h.name].power]
      [] OTHER -> h

\* done that takes only 'success' for the end of a task.
doneOnSuccess(h) == h.kind = "task" /\ h.info = "success"

\* done(task) of the workflows
done(h) == h.kind = "task" /\ h.info \in {"success", "error"}

\* got_ip(task) of the workflows
got_ip(h) == h.kind = "vm" /\ h.summary /\ h.ip # ""

\* vm.power_state()
power_state(h) == h.power

\* ------------------------------------------------------------ the registry
VmStateNames == {"VM_NON_EXISTENT", "VM_DIRTY", "VM_CLEAN", "VM_RUNNING"}
NoInstance == [present |-> FALSE, vm |-> NoHandle, vm_state |-> "", ipv4 |-> ""]

\* DeriveState with the power state tested before the snapshot.
DeriveStatePowerFirst(v) ==
    IF ~v.exists THEN "VM_NON_EXISTENT"
    ELSE IF v.power = "poweredOn" THEN "VM_RUNNING"
    ELSE IF v.snap = "pristine" THEN "VM_CLEAN"
    ELSE "VM_DIRTY"

\* The vm_state _get_instance derives from the resource v found under the name
\* (v.exists is "find_vm_by_name returned a VM").
DeriveState(v) ==
    IF ~v.exists THEN "VM_NON_EXISTENT"
    ELSE IF v.snap # "none" /\ v.snap = "pristine"
         THEN IF v.power = "poweredOn" THEN "VM_RUNNING" ELSE "VM_CLEAN"
         ELSE "VM_DIRTY"

\* self.instances after _get_instance(prop) for instance id i
GetInstance(inst, i) ==
    IF inst[i].present THEN inst
    ELSE [inst EXCEPT ![i] = [present |-> TRUE,
                              vm |-> find_vm_by_name(i, TRUE),
                              vm_state |-> DeriveState(vms[i]),
                              ipv4 |-> ""]]

\* self.instances after _get_instance for every prop of the batch b
GetInstances(inst, b) ==
    [i \in Ids |-> IF \E k \in 1..Len(b) : b[k] = i
                   THEN GetInstance(inst, i)[i] ELSE inst[i]]

\* what the observer notes of the resolutions a step makes
Resolve(b) ==
    [i \in Ids |-> IF (\E k \in 1..Len(b) : b[k] = i) /\ ~instances[i].present
                   THEN GetInstance(instances, i)[i].vm_state
                   ELSE resolved[i]]

\* InitState without the downgrade.
InitStateKeep(st) == st

\* init_instance: the vm_state it leaves in the registry
InitState(st) == IF st = "VM_RUNNING" THEN "VM_CLEAN" ELSE st

\* ------------------------------------------------------------ dispatch
\* WaitJob with the update branch taken for every existing resource.
WaitJobUpdateAny(ws, st) ==
    IF ws = "running"
    THEN IF st = "VM_CLEAN" THEN "revert"
         ELSE IF st = "VM_NON_EXISTENT" THEN "clone"
         ELSE IF st = "VM_DIRTY" THEN "clone"
         ELSE "none"
    ELSE IF st # "VM_NON_EXISTENT" THEN "update" ELSE "none"

\* WaitJob with a running instance re-polled on bring-up.
WaitJobUpdateRunning(ws, st) ==
    IF st = "VM_RUNNING" THEN "update"
    ELSE IF ws # "running" THEN "none"
    ELSE IF st = "VM_CLEAN" THEN "revert" ELSE "clone"

\* The workflow wait_instances picks for an instance in vm_state st.
WaitJob(ws, st) ==
    IF ws = "running"
    THEN IF st = "VM_CLEAN" THEN "revert"
         ELSE IF st = "VM_NON_EXISTENT" THEN "clone"
         ELSE IF st = "VM_DIRTY" THEN "clone"
         ELSE "none"
    ELSE IF st = "VM_RUNNING" THEN "update" ELSE "none"

\* The workflow terminate_instances picks.
TerminateJob(st) == IF st # "VM_NON_EXISTENT" THEN "delete" ELSE "none"

\* A generator object that was not sent to yet: calling a generator function
\* runs none of its body. The n-th object created for an id has gen = n.
NewJob(k, n) == [kind |-> k, pc |-> "start", vm |-> NoHandle, gen |-> n]

\* the number of times id i occurs in the sequence q
RECURSIVE Occurrences(_, _)
Occurrences(q, i) ==
    IF q = <<>> THEN 0
    ELSE (IF Head(q) = i THEN 1 ELSE 0) + Occurrences(Tail(q), i)

\* KeyOrder with one key for every prop of the batch.
KeyOrderAll(b, S) == SelectSeq(b, LAMBDA x : x \in S)

\* Key order of a dict filled from the batch b for the ids in S: a key keeps
\* the position of its first insertion.
RECURSIVE KeyOrder(_, _)
KeyOrder(b, S) ==
    IF b = <<>> THEN <<>>
    ELSE LET rest == KeyOrder(Tail(b), S \ {Head(b)})
         IN IF Head(b) \in S THEN <<Head(b)>> \o rest ELSE rest

\* Without that removes nothing.
WithoutKeep(f, i) == f

\* del f[i]
Without(f, i) == [k \in DOMAIN f \ {i} |-> f[k]]

\* ------------------------------------------------------------ workflows
\* What one resume (job.send(h)) of a generator does, as a record:
\*   out    "yield" (suspends on handle), "stop" (StopIteration) or "raise"
\*   pc, vm the generator's new position and its local vm / clone variable
\*   submit the remote operation it submitted ("none" when it submitted none)
\*   ipv4   the address it stored in instance['ipv4'] ("" when it stored none)
Yield(pc, vm, h) ==
    [out |-> "yield", pc |-> pc, vm |-> vm, handle |-> h, submit |-> "none", ipv4 |-> ""]
Submit(i, pc, vm, o) ==
    [out |-> "yield", pc |-> pc, vm |-> vm, handle |-> TaskHandle(i, o), submit |-> o, ipv4 |-> ""]
Stop(a) ==
    [out |-> "stop", pc |-> "end", vm |-> NoHandle, handle |-> NoHandle, submit |-> "none", ipv4 |-> a]
Raise ==
    [out |-> "raise", pc |-> "end", vm |-> NoHandle, handle |-> NoHandle, submit |-> "none", ipv4 |-> ""]

\* _get_base_vm: is a base VM handle returned for the base name b
get_base_vm(b) == b \in base_vm_cache \/ baseExists[b]

\* instance['vm'], or find_vm_by_name when the registry holds None
InstanceVm(i, withSummary) ==
    IF instances[i].vm # NoHandle THEN instances[i].vm
    ELSE find_vm_by_name(i, withSummary)

\* CloneStart that goes on without a base VM.
CloneStartAnyBase(i) ==
    LET clone == find_vm_by_name(i, FALSE)
    IN IF clone # NoHandle
       THEN Submit(i, "poweroff", clone, "poweroff")
       ELSE Submit(i, "clone", NoHandle, "clone")

\* _clone_vm(instance, nuke_old=True), one operator per suspension point.
\* First send: the base VM lookup and the start of the forced removal.
CloneStart(i) ==
    IF ~get_base_vm(BaseOf(i)) THEN Raise
    ELSE LET clone == find_vm_by_name(i, FALSE)
         IN IF clone # NoHandle
            THEN Submit(i, "poweroff", clone, "poweroff")
            ELSE Submit(i, "clone", NoHandle, "clone")

\* suspended on the power-off task of the old resource
ClonePoweroffWait(i, j, h) ==
    IF done(h) THEN Submit(i, "delete", j.vm, "delete") ELSE Yield(j.pc, j.vm, h)

\* CloneDeleteWait that does not wait for the delete task.
CloneDeleteNoWait(i, j, h) == Submit(i, "clone", j.vm, "clone")

\* suspended on the delete task of the old resource
CloneDeleteWait(i, j, h) ==
    IF done(h) THEN Submit(i, "clone", j.vm, "clone") ELSE Yield(j.pc, j.vm, h)

\* suspended on the clone task; clone.power_on_task() raises when
\* find_vm_by_name returned None
CloneCloneWait(i, j, h) ==
    IF done(h)
    THEN LET clone == find_vm_by_name(i, FALSE)
         IN IF clone = NoHandle THEN Raise
            ELSE Submit(i, "poweron", clone, "poweron")
    ELSE Yield(j.pc, j.vm, h)

\* ClonePoweronWait that snapshots without waiting for the guest address.
ClonePoweronNoIp(i, j, h) ==
    IF done(h) THEN Submit(i, "snapshot", j.vm, "snapshot") ELSE Yield(j.pc, j.vm, h)

\* suspended on the power-on task
ClonePoweronWait(i, j, h) ==
    IF done(h)
    THEN IF got_ip(j.vm)
         THEN [Submit(i, "snapshot", j.vm, "snapshot") EXCEPT !.ipv4 = j.vm.ip]
         ELSE Yield("ip", j.vm, j.vm)
    ELSE Yield(j.pc, j.vm, h)

\* suspended on the VM object, waiting for its guest address
CloneIpWait(i, j, h) ==
    IF got_ip(h)
    THEN [Submit(i, "snapshot", j.vm, "snapshot") EXCEPT !.ipv4 = h.ip]
    ELSE Yield(j.pc, j.vm, h)

\* suspended on the snapshot task
CloneSnapshotWait(i, j, h) ==
    IF done(h) THEN Stop("") ELSE Yield(j.pc, j.vm, h)

CloneStep(i, j, h) ==
    CASE j.pc = "start" -> CloneStart(i)
      [] j.pc = "poweroff" -> ClonePoweroffWait(i, j, h)
      [] j.pc = "delete" -> CloneDeleteWait(i, j, h)
      [] j.pc = "clone" -> CloneCloneWait(i, j, h)
      [] j.pc = "poweron" -> ClonePoweronWait(i, j, h)
      [] j.pc = "ip" -> CloneIpWait(i, j, h)
      [] OTHER -> CloneSnapshotWait(i, j, h)

\* _revert_vm(instance)
RevertStep(i, j, h) ==
    CASE j.pc = "start" ->
            LET vm == InstanceVm(i, FALSE)
            IN IF vm = NoHandle THEN Raise
               ELSE Submit(i, "revert", vm, "revert")
      [] j.pc = "revert" ->
            IF done(h)
            THEN IF got_ip(j.vm) THEN Stop(j.vm.ip) ELSE Yield("ip", j.vm, j.vm)
            ELSE Yield(j.pc, j.vm, h)
      [] OTHER ->  \* "ip"
            IF got_ip(h) THEN Stop(h.ip) ELSE Yield(j.pc, j.vm, h)

\* _delete_vm(instance). First send: resolve the handle, read its power state.
DeleteStart(i) ==
    LET vm == InstanceVm(i, TRUE)
    IN IF vm = NoHandle THEN Raise
       ELSE IF power_state(vm) = "poweredOn"
            THEN Submit(i, "poweroff", vm, "poweroff")
            ELSE Submit(i, "delete", vm, "delete")

\* DeletePoweroffWait that does not wait for the power-off task.
DeletePoweroffNoWait(i, j, h) == Submit(i, "delete", j.vm, "delete")

\* suspended on the power-off task
DeletePoweroffWait(i, j, h) ==
    IF done(h) THEN Submit(i, "delete", j.vm, "delete") ELSE Yield(j.pc, j.vm, h)

\* suspended on the delete task
DeleteDeleteWait(i, j, h) ==
    IF done(h) THEN Stop("") ELSE Yield(j.pc, j.vm, h)

DeleteStep(i, j, h) ==
    CASE j.pc = "start" -> DeleteStart(i)
      [] j.pc = "poweroff" -> DeletePoweroffWait(i, j, h)
      [] OTHER -> DeleteDeleteWait(i, j, h)

\* _update_vm(instance)
UpdateStep(i, j, h) ==
    CASE j.pc = "start" ->
            LET vm == InstanceVm(i, FALSE)
            IN IF vm = NoHandle THEN Raise
               ELSE IF got_ip(vm) THEN Stop(vm.ip) ELSE Yield("ip", vm, vm)
      [] OTHER ->  \* "ip"
            IF got_ip(h) THEN Stop(h.ip) ELSE Yield(j.pc, j.vm, h)

\* job.send(h) for the generator j of instance i
Send(i, j, h) ==
    CASE j.kind = "clone" -> CloneStep(i, j, h)
      [] j.kind = "revert" -> RevertStep(i, j, h)
      [] j.kind = "delete" -> DeleteStep(i, j, h)
      [] OTHER -> UpdateStep(i, j, h)

\* ------------------------------------------------------------ server steps
\* Can the operation o succeed on the resource v
Applicable(o, v) ==
    CASE o = "poweroff" -> v.exists /\ v.power = "poweredOn"
      [] o = "poweron" -> v.exists /\ v.power # "poweredOn"
      [] o = "clone" -> ~v.exists
      [] o = "revert" -> v.exists /\ v.snap # "none"
      [] OTHER -> v.exists   \* "delete", "snapshot"

\* The resource after the operation o succeeded on it
Effect(o, v) ==
    CASE o = "poweroff" -> [v EXCEPT !.power = "poweredOff", !.ip = ""]
      [] o = "poweron" -> [v EXCEPT !.power = "poweredOn", !.ip = ""]
      [] o = "clone" -> NewVm
      [] o = "revert" -> [v EXCEPT !.power = "poweredOn", !.ip = ""]
      [] o = "delete" -> NoVm
      [] OTHER -> [v EXCEPT !.snap = IF v.snap = "none" THEN "pristine" ELSE v.snap]

\* The server finishes the running task of key i, with success or with error.
TaskFinish(i, ok) ==
    /\ rtask[i].state = "running"
    /\ ok => Applicable(rtask[i].op, vms[i])
    /\ rtask' = [rtask EXCEPT ![i].state = IF ok THEN "success" ELSE "error"]
    /\ vms' = IF ok THEN [vms EXCEPT ![i] = Effect(rtask[i].op, vms[i])] ELSE vms
    /\ UNCHANGED <<baseExists, reg, call, status, wait_state, loc, ncalls, obs>>

\* The guest of a powered-on resource reports an address, or a new one.
GuestIp(n, a) ==
    /\ vms[n].exists /\ vms[n].power = "poweredOn" /\ vms[n].ip # a
    /\ vms' = [vms EXCEPT ![n].ip = a]
    /\ UNCHANGED <<baseExists, rtask, reg, call, status, wait_state, loc, ncalls, obs>>

\* ------------------------------------------------------------ provider calls
BatchIds(b) == {b[k] : k \in 1..Len(b)}
BatchesOf(S) == UNION {[1..n -> S] : n \in 1..MaxBatch}
\* the batches that name no instance twice
DistinctBatchesOf(S) == {b \in BatchesOf(S) : \A i \in S : Occurrences(b, i) <= 1}
NoJobs == [i \in {} |-> NewJob("none", 0)]
NoTasks == [i \in {} |-> NoHandle]
\* Record without the dns entry filled in.
RecordNoDns(ipv4) == [host |-> ipv4, private |-> [ip |-> ipv4, dns |-> ""]]

\* dict(host=ipv4, private=dict(ip=ipv4, dns=ipv4))
Record(ipv4) == [host |-> ipv4, private |-> [ip |-> ipv4, dns |-> ipv4]]
NoUpdated == [i \in {} |-> Record("")]
NoDispatch == [i \in Ids |-> [kind |-> "none", state |-> ""]]
NoneCreated == [i \in Ids |-> 0]
NoneSent == [i \in Ids |-> {}]

Summary ==
    [call |-> call, wait_state |-> wait_state, status |-> status,
     updated_props |-> updated_props, dispatched |-> dispatched]

CanCall == status # "running" /\ ncalls < MaxCalls

\* init_instance(cloud_prop) for instance id i
InitInstance(i) ==
    /\ CanCall
    /\ instances' = [GetInstance(instances, i) EXCEPT
                        ![i].vm_state = InitState(GetInstance(instances, i)[i].vm_state)]
    /\ call' = "init" /\ status' = "returned"
    /\ ncalls' = ncalls + 1
    /\ jobs' = NoJobs /\ tasks' = NoTasks /\ order' = <<>> /\ todo' = <<>>
    /\ loopPc' = "top" /\ updated_props' = NoUpdated
    /\ resolved' = Resolve(<<i>>)
    /\ dispatched' = [NoDispatch EXCEPT
                          ![i].state = GetInstance(instances, i)[i].vm_state]
    /\ ops' = <<>> /\ finished' = {} /\ nrefresh' = 0 /\ refreshArg' = {}
    /\ created' = NoneCreated /\ sent' = NoneSent
    /\ prev' = Summary
    /\ UNCHANGED <<srv, base_vm_cache, wait_state>>

\* The dispatch loop shared by wait_instances and terminate_instances; Job
\* maps a vm_state to the workflow picked for it. Every prop of the batch that
\* gets a workflow creates a generator object, and "jobs[instance_id] = job"
\* leaves the one created last for an id in the dict.
Dispatch(b, Job) ==
    LET inst == GetInstances(instances, b)
        S == {i \in BatchIds(b) : Job[inst[i].vm_state] # "none"}
    IN /\ instances' = inst
       /\ jobs' = [i \in S |-> NewJob(Job[inst[i].vm_state], Occurrences(b, i))]
       /\ created' = [i \in Ids |-> IF i \in S THEN Occurrences(b, i) ELSE 0]
       /\ sent' = NoneSent
       /\ tasks' = [i \in S |-> NoHandle]
       /\ order' = KeyOrder(b, S)
       /\ dispatched' = [i \in Ids |->
                            IF i \in BatchIds(b)
                            THEN [kind |-> Job[inst[i].vm_state], state |-> inst[i].vm_state]
                            ELSE [kind |-> "none", state |-> ""]]
       /\ status' = "running" /\ ncalls' = ncalls + 1
       /\ todo' = <<>> /\ loopPc' = "top" /\ updated_props' = NoUpdated
       /\ resolved' = Resolve(b)
       /\ ops' = <<>> /\ finished' = {} /\ nrefresh' = 0 /\ refreshArg' = {}
       /\ prev' = Summary
       /\ UNCHANGED <<srv, base_vm_cache>>

\* wait_instances(props, wait_state): lines 127-151
StartWait(b, ws) ==
    /\ CanCall
    /\ call' = "wait" /\ wait_state' = ws
    /\ Dispatch(b, [st \in VmStateNames |-> WaitJob(ws, st)])

\* terminate_instances(props): lines 86-95
StartTerminate(b) ==
    /\ CanCall
    /\ call' = "terminate" /\ UNCHANGED wait_state
    /\ Dispatch(b, [st \in VmStateNames |-> TerminateJob(st)])

\* ------------------------------------------------------------ the scheduler
\* AnyPending with the test on the handles inverted.
AnyPendingInverted(t) == \E x \in DOMAIN t : t[x] = NoHandle

\* "if [tasks[x] for x in tasks if tasks[x]]"
AnyPending(t) == \E x \in DOMAIN t : t[x] # NoHandle

\* vim.update_many_objects(tasks): every object of the dict, refreshed
update_many_objects(t) == [x \in DOMAIN t |-> RefreshOne(t[x])]

\* list_jobs that holds the first key only.
list_jobs_first(o) == IF o = <<>> THEN <<>> ELSE <<Head(o)>>

\* list(jobs): the keys of the jobs dict, whose key order is o
list_jobs(o) == o

\* "while jobs:" is true: the batched refresh, then "for instance_id in list(jobs)"
IterBegin ==
    /\ status = "running" /\ loopPc = "top" /\ DOMAIN jobs # {}
    /\ IF AnyPending(tasks)
       THEN /\ tasks' = update_many_objects(tasks)
            /\ nrefresh' = 1 /\ refreshArg' = DOMAIN tasks
       ELSE /\ tasks' = tasks
            /\ nrefresh' = 0 /\ refreshArg' = {}
    /\ todo' = list_jobs(order) /\ loopPc' = "resume"
    /\ UNCHANGED <<srv, reg, call, status, wait_state, jobs, order, updated_props,
                   ncalls, resolved, dispatched, ops, finished, created, sent, prev>>

\* The state left behind when an exception leaves the call.
Abort ==
    /\ status' = "error"
    /\ jobs' = NoJobs /\ tasks' = NoTasks /\ order' = <<>> /\ todo' = <<>>
    /\ loopPc' = "top" /\ updated_props' = NoUpdated

\* One turn of the for loop: job.send(tasks[instance_id]) and its except clause.
Resume ==
    /\ status = "running" /\ loopPc = "resume" /\ todo # <<>>
    /\ LET i == Head(todo)
           r == Send(i, jobs[i], tasks[i])
           ip == IF r.ipv4 # "" THEN r.ipv4 ELSE instances[i].ipv4
           base == IF jobs[i].kind = "clone" /\ jobs[i].pc = "start" /\ baseExists[BaseOf(i)]
                   THEN {BaseOf(i)} ELSE {}
       IN /\ base_vm_cache' = base_vm_cache \cup base
          /\ sent' = [sent EXCEPT ![i] = @ \cup {jobs[i].gen}]
          /\ rtask' = IF r.submit # "none"
                      THEN [rtask EXCEPT ![i] = [op |-> r.submit, state |-> "running"]]
                      ELSE rtask
          /\ ops' = IF r.submit # "none"
                    THEN Append(ops, [id |-> i, op |-> r.submit]) ELSE ops
          /\ CASE r.out = "yield" ->
                    /\ tasks' = [tasks EXCEPT ![i] = r.handle]
                    /\ jobs' = [jobs EXCEPT ![i].pc = r.pc, ![i].vm = r.vm]
                    /\ instances' = [instances EXCEPT ![i].ipv4 = ip]
                    /\ todo' = Tail(todo)
                    /\ loopPc' = IF Tail(todo) = <<>> THEN "sleep" ELSE "resume"
                    /\ UNCHANGED <<status, order, updated_props, finished>>
               [] r.out = "stop" /\ (call = "terminate" \/ ip # "") ->
                    /\ tasks' = Without(tasks, i)
                    /\ jobs' = Without(jobs, i)
                    /\ order' = SelectSeq(order, LAMBDA x : x # i)
                    /\ instances' = IF call = "wait"
                                    THEN [instances EXCEPT ![i].ipv4 = ip,
                                                           ![i].vm_state = "VM_RUNNING"]
                                    ELSE instances
                    /\ updated_props' = IF call = "wait"
                                  THEN [x \in DOMAIN updated_props \cup {i} |->
                                            IF x = i THEN Record(ip) ELSE updated_props[x]]
                                  ELSE updated_props
                    /\ finished' = finished \cup {i}
                    /\ todo' = Tail(todo)
                    /\ loopPc' = IF Tail(todo) = <<>> THEN "sleep" ELSE "resume"
                    /\ UNCHANGED status
               [] OTHER ->  \* the generator raised, or instance['ipv4'] is missing
                    /\ Abort
                    /\ instances' = [instances EXCEPT ![i].ipv4 = ip]
                    /\ UNCHANGED finished
    /\ UNCHANGED <<vms, baseExists, call, wait_state, ncalls, resolved,
                   dispatched, nrefresh, refreshArg, created, prev>>

\* time.sleep(2) at the end of the loop body
Sleep ==
    /\ status = "running" /\ loopPc = "sleep"
    /\ loopPc' = "top"
    /\ UNCHANGED <<srv, reg, call, status, wait_state, jobs, tasks, order,
                   todo, updated_props, ncalls, obs>>

\* "while jobs:" is false: the call returns (updated_props, for wait_instances)
Return ==
    /\ status = "running" /\ loopPc = "top" /\ DOMAIN jobs = {}
    /\ status' = "returned"
    /\ UNCHANGED <<srv, reg, call, wait_state, loc, ncalls, obs>>

\* ------------------------------------------------------------ specification
\* The provider right after __init__: an empty registry and an empty base VM
\* cache, facing a server that holds any resources.
Start ==
    /\ rtask = [i \in Ids |-> NoTask]
    /\ instances = [i \in Ids |-> NoInstance]
    /\ base_vm_cache = {}
    /\ call = "none" /\ status = "none" /\ wait_state = "running"
    /\ jobs = NoJobs /\ tasks = NoTasks /\ order = <<>> /\ todo = <<>>
    /\ loopPc = "top" /\ updated_props = NoUpdated /\ ncalls = 0
    /\ resolved = [i \in Ids |-> ""]
    /\ dispatched = NoDispatch /\ ops = <<>> /\ finished = {}
    /\ nrefresh = 0 /\ refreshArg = {}
    /\ created = NoneCreated /\ sent = NoneSent
    /\ prev = [call |-> "none", wait_state |-> "running", status |-> "none",
               updated_props |-> NoUpdated, dispatched |-> NoDispatch]

\* Spec: calls on the one instance "a", any resource state, MaxCalls calls.
One == {"a"}

Init ==
    /\ Start
    /\ vms \in {v \in [Ids -> VmStates] : \A i \in Ids \ One : v[i] = NoVm}
    /\ baseExists \in {e \in [Bases -> BOOLEAN] : \A i \in Ids \ One : e[BaseOf(i)]}

Next ==
    \/ \E i \in One : InitInstance(i)
    \/ \E b \in DistinctBatchesOf(One), ws \in {"running", "stopped"} : StartWait(b, ws)
    \/ \E b \in DistinctBatchesOf(One) : StartTerminate(b)
    \/ IterBegin
    \/ Resume
    \/ Sleep
    \/ Return
    \/ \E i \in Ids, ok \in BOOLEAN : TaskFinish(i, ok)
    \/ \E n \in Ids, a \in IPs : GuestIp(n, a)

Spec == Init /\ [][Next]_vars

\* SpecBatch: batches over both instances, MaxBatchCalls calls, each resource
\* starting in one representative of each derived state.
BatchVmStates ==
    {NoVm, Vm("poweredOn", "none", "ip1"), Vm("poweredOff", "pristine", ""),
     Vm("poweredOn", "pristine", "ip1")}

InitBatch ==
    /\ Start
    /\ vms \in [Ids -> BatchVmStates]
    /\ baseExists \in {e \in [Bases -> BOOLEAN] : e[BaseOf("a")]}

\* The server moves while the scheduler sleeps or no call runs: the for loop
\* of an iteration takes no time next to time.sleep(2).
Quiet == status # "running" \/ loopPc = "sleep"

NextBatch ==
    \/ ncalls < MaxBatchCalls /\ \E i \in Ids : InitInstance(i)
    \/ ncalls < MaxBatchCalls /\
            \E b \in DistinctBatchesOf(Ids), ws \in {"running", "stopped"} : StartWait(b, ws)
    \/ ncalls < MaxBatchCalls /\ \E b \in DistinctBatchesOf(Ids) : StartTerminate(b)
    \/ IterBegin
    \/ Resume
    \/ Sleep
    \/ Return
    \/ Quiet /\ \E i \in Ids, ok \in BOOLEAN : TaskFinish(i, ok)
    \/ Quiet /\ \E n \in Ids : GuestIp(n, "ip1")

SpecBatch == InitBatch /\ [][NextBatch]_vars

\* SpecLive: the scheduler loop run to its end. The calls are those of
\* SpecBatch without init_instance; the loop of wait_instances and of
\* terminate_instances is sequential code, so each of its steps is taken once
\* it is due. Nothing is assumed of the server, whose base images exist.
LiveVmStates ==
    {NoVm, Vm("poweredOff", "pristine", ""), Vm("poweredOn", "pristine", "ip1")}

InitLive ==
    /\ Start
    /\ vms \in [Ids -> LiveVmStates]
    /\ baseExists = [x \in Bases |-> TRUE]

NextLive ==
    \/ ncalls < MaxLiveCalls /\
            \E b \in DistinctBatchesOf(Ids), ws \in {"running", "stopped"} : StartWait(b, ws)
    \/ ncalls < MaxLiveCalls /\ \E b \in DistinctBatchesOf(Ids) : StartTerminate(b)
    \/ IterBegin
    \/ Resume
    \/ Sleep
    \/ Return
    \/ Quiet /\ \E i \in Ids, ok \in BOOLEAN : TaskFinish(i, ok)
    \/ Quiet /\ \E n \in Ids : GuestIp(n, "ip1")

SpecLive ==
    /\ InitLive /\ [][NextLive]_vars
    /\ WF_vars(IterBegin) /\ WF_vars(Resume) /\ WF_vars(Sleep) /\ WF_vars(Return)

\* SpecDup: batches that may name an instance more than once.
InitDup ==
    /\ Start
    /\ vms \in [Ids -> LiveVmStates]
    /\ baseExists = [x \in Bases |-> TRUE]

NextDup ==
    \/ ncalls < MaxDupCalls /\
            \E b \in BatchesOf(Ids), ws \in {"running", "stopped"} : StartWait(b, ws)
    \/ ncalls < MaxDupCalls /\ \E b \in BatchesOf(Ids) : StartTerminate(b)
    \/ IterBegin
    \/ Resume
    \/ Sleep
    \/ Return
    \/ Quiet /\ \E i \in Ids, ok \in BOOLEAN : TaskFinish(i, ok)
    \/ Quiet /\ \E n \in Ids : GuestIp(n, "ip1")

SpecDup == InitDup /\ [][NextDup]_vars

\* ============================================================ properties
InBatch(i) == dispatched[i].state # ""
PrevInBatch(i) == prev.dispatched[i].state # ""
\* the operations the running call submitted for instance i, in order
RECURSIVE OpsOfSeq(_, _)
OpsOfSeq(q, i) ==
    IF q = <<>> THEN <<>>
    ELSE IF Head(q).id = i THEN <<Head(q).op>> \o OpsOfSeq(Tail(q), i)
    ELSE OpsOfSeq(Tail(q), i)
OpsOf(i) == OpsOfSeq(ops, i)
IsPrefix(p, q) == Len(p) <= Len(q) /\ \A k \in 1..Len(p) : p[k] = q[k]
\* a task handle carrying a terminal status
Terminal(h) == h.kind = "task" /\ h.info \in {"success", "error"}

\* ---- C1
\* The state table of the first resolution, case by case.
ExpectedState(v) ==
    CASE ~v.exists -> "VM_NON_EXISTENT"
      [] v.exists /\ v.snap # "pristine" -> "VM_DIRTY"
      [] v.exists /\ v.snap = "pristine" /\ v.power # "poweredOn" -> "VM_CLEAN"
      [] v.exists /\ v.snap = "pristine" /\ v.power = "poweredOn" -> "VM_RUNNING"

\* C1: whenever _get_instance resolves an id for the first time, the state it
\* derives is NON_EXISTENT for no resource, DIRTY for a resource whose first
\* root snapshot is not 'pristine' (or that has none), whatever its power
\* state, CLEAN for 'pristine' and not powered on, RUNNING for 'pristine' and
\* powered on; no other state is derived.
C1_DerivedState ==
    [][\A i \in Ids :
         (resolved[i] = "" /\ resolved'[i] # "") =>
             /\ resolved'[i] = ExpectedState(vms[i])
             /\ resolved'[i] \in {"VM_NON_EXISTENT", "VM_DIRTY", "VM_CLEAN", "VM_RUNNING"}
             /\ call' # "init" => instances'[i].vm_state = resolved'[i]]_vars

\* a powered-on resource without the pristine snapshot was resolved as DIRTY
C1_Witness ==
    /\ resolved["a"] = "VM_DIRTY"
    /\ instances["a"].vm.power = "poweredOn"
    /\ call = "terminate"

\* ---- C2
ExpectedWaitJob(ws, st) ==
    CASE ws = "running" /\ st = "VM_CLEAN" -> "revert"
      [] ws = "running" /\ st \in {"VM_NON_EXISTENT", "VM_DIRTY"} -> "clone"
      [] ws # "running" /\ st = "VM_RUNNING" -> "update"
      [] OTHER -> "none"

\* C2: wait_instances dispatches by the registry state alone: for 'running',
\* CLEAN gets Revert, NON_EXISTENT and DIRTY get Clone, RUNNING nothing; for
\* any other wait_state only RUNNING gets Update. An instance that gets no
\* workflow has no job, no submitted operation, no record, and keeps its
\* registry state.
C2_WaitDispatch ==
    \A i \in Ids :
        (call = "wait" /\ InBatch(i)) =>
            /\ dispatched[i].kind = ExpectedWaitJob(wait_state, dispatched[i].state)
            /\ dispatched[i].kind # "none" /\ status = "running" =>
                   i \in finished \/ (i \in DOMAIN jobs /\ jobs[i].kind = dispatched[i].kind)
            /\ dispatched[i].kind = "none" =>
                   /\ i \notin DOMAIN jobs /\ i \notin DOMAIN tasks
                   /\ OpsOf(i) = <<>>
                   /\ i \notin DOMAIN updated_props
                   /\ i \notin finished
                   /\ instances[i].vm_state = dispatched[i].state

\* a refresh request on a CLEAN instance returned without doing anything
C2_Witness ==
    /\ call = "wait" /\ wait_state = "stopped" /\ status = "returned"
    /\ dispatched["a"] = [kind |-> "none", state |-> "VM_CLEAN"]
    /\ vms["a"].exists

\* ---- C3
\* C3: init_instance leaves CLEAN in the registry where it found RUNNING and
\* every other state as it found it; a wait_instances('running') that follows
\* init_instance on the same instance dispatches a Revert or a Clone workflow
\* (Revert where init_instance found RUNNING), and does not return before
\* that workflow finished.
C3_InitThenBringUp ==
    \A i \in Ids :
        /\ (call = "init" /\ InBatch(i)) =>
               instances[i].vm_state =
                   IF dispatched[i].state = "VM_RUNNING" THEN "VM_CLEAN"
                   ELSE dispatched[i].state
        /\ (prev.call = "init" /\ PrevInBatch(i) /\ call = "wait"
                /\ wait_state = "running" /\ InBatch(i)) =>
               /\ dispatched[i].kind \in {"revert", "clone"}
               /\ prev.dispatched[i].state = "VM_RUNNING" => dispatched[i].kind = "revert"
               /\ status = "returned" => i \in finished

\* a resource found running with its pristine snapshot was reverted
C3_Witness ==
    /\ prev.call = "init" /\ prev.dispatched["a"].state = "VM_RUNNING"
    /\ call = "wait" /\ wait_state = "running" /\ status = "returned"
    /\ dispatched["a"].kind = "revert" /\ "a" \in finished
    /\ OpsOf("a") = <<"revert">>


\* ---- C4
\* C4: a Delete workflow completed by terminate_instances removes the instance
\* from the registry, and a second terminate_instances on the same id
\* dispatches no Delete workflow and submits no remote operation.
C4_TerminateRemoves ==
    \A i \in Ids :
        /\ (call = "terminate" /\ i \in finished) => ~instances[i].present
        /\ (prev.call = "terminate" /\ prev.status = "returned"
                /\ prev.dispatched[i].kind = "delete"
                /\ call = "terminate" /\ InBatch(i)) =>
               /\ dispatched[i].kind = "none"
               /\ OpsOf(i) = <<>>

\* ---- C5
\* bring-up was called on instance i and returned, and is called on it again
SecondBringUp(i) ==
    /\ prev.call = "wait" /\ prev.wait_state = "running" /\ prev.status = "returned"
    /\ PrevInBatch(i)
    /\ call = "wait" /\ wait_state = "running" /\ InBatch(i)

\* C5 as stated: the second bring-up of a RUNNING instance dispatches an
\* Update workflow and nothing else, and returns the address the first call
\* returned when the remote address is still that address.
C5_SecondBringUpUpdates ==
    \A i \in Ids :
        (SecondBringUp(i) /\ dispatched[i].state = "VM_RUNNING") =>
            /\ dispatched[i].kind = "update"
            /\ OpsOf(i) = <<>>
            /\ (status = "returned" /\ i \in DOMAIN prev.updated_props
                    /\ vms[i].ip = prev.updated_props[i].host) =>
                   (i \in DOMAIN updated_props /\ updated_props[i] = prev.updated_props[i])

\* C5 amended: the second bring-up finds the instance RUNNING and dispatches
\* no workflow for it at all: it submits no remote operation and returns no
\* record for the instance, and the address in the registry stays the one the
\* first call returned.
C5_SecondBringUpNoop ==
    \A i \in Ids :
        SecondBringUp(i) =>
            /\ dispatched[i].state = "VM_RUNNING"
            /\ dispatched[i].kind = "none"
            /\ i \notin DOMAIN jobs
            /\ OpsOf(i) = <<>>
            /\ i \notin DOMAIN updated_props
            /\ i \in DOMAIN prev.updated_props => Record(instances[i].ipv4) = prev.updated_props[i]

\* the second of two bring-ups returned, the first having returned an address
C5_Witness ==
    /\ SecondBringUp("a") /\ status = "returned"
    /\ "a" \in DOMAIN prev.updated_props
    /\ prev.updated_props["a"].host \in IPs


\* ---- steps, as seen by an observer
\* the step submits the remote operation o for instance i
Submitted(i, o) == ops' = Append(ops, [id |-> i, op |-> o])
\* the step is the end of instance i's workflow
Finishes(i) == i \notin finished /\ i \in finished'
\* the step is the "while jobs" test with the batched refresh that follows it
IterStep == status = "running" /\ loopPc = "top" /\ loopPc' = "resume"

\* ---- C6
\* C6: an iteration of the scheduler loop (of wait_instances or of
\* terminate_instances) in which some active workflow has a pending handle
\* makes exactly one update_many_objects call, for the handles of all active
\* workflows, whatever their number; an iteration in which every pending
\* handle is None, which is the first one, makes none; and resuming the
\* workflows makes none.
C6_Batching ==
    [][/\ IterStep =>
            IF \E i \in DOMAIN jobs : tasks[i] # NoHandle
            THEN /\ nrefresh' = 1
                 /\ refreshArg' = DOMAIN jobs
                 /\ DOMAIN tasks' = DOMAIN jobs
                 /\ \A i \in DOMAIN jobs :
                        /\ tasks[i] # NoHandle /\ jobs[i].pc # "start"
                        /\ tasks'[i] = RefreshOne(tasks[i])
            ELSE /\ nrefresh' = 0
                 /\ tasks' = tasks
                 /\ \A i \in DOMAIN jobs : jobs[i].pc = "start"
       /\ (status = "running" /\ loopPc = "resume") =>
            /\ nrefresh' = nrefresh
            /\ \A i \in DOMAIN tasks \cap DOMAIN tasks' :
                   tasks'[i].kind = "task" /\ tasks'[i].info # "" => tasks'[i] = tasks[i]
      ]_vars

\* one refresh call was made for two active workflows
C6_Witness ==
    /\ status = "running" /\ loopPc = "resume"
    /\ nrefresh = 1 /\ refreshArg = {"a", "b"}
    /\ DOMAIN jobs = {"a", "b"}

\* ---- C7
\* the clone, power-on and snapshot operations among a sequence of operations
RECURSIVE MainOps(_)
MainOps(q) ==
    IF q = <<>> THEN <<>>
    ELSE IF Head(q) \in {"clone", "poweron", "snapshot"}
         THEN <<Head(q)>> \o MainOps(Tail(q)) ELSE MainOps(Tail(q))

CloneOfNonExistent(i) ==
    /\ call = "wait" /\ status = "running"
    /\ dispatched[i] = [kind |-> "clone", state |-> "VM_NON_EXISTENT"]

\* C7: the Clone workflow of a NON_EXISTENT instance submits clone, power-on
\* and snapshot in this order: the power-on when the refreshed clone task is
\* terminal; the address poll when the refreshed power-on task is terminal;
\* the snapshot when a refreshed VM handle carries a guest address, which is
\* stored as the instance's ipv4; it finishes when the refreshed snapshot task
\* is terminal, and the registry state is then RUNNING.
C7_CloneOrder ==
    [][\A i \in Ids : CloneOfNonExistent(i) =>
         /\ IsPrefix(MainOps(OpsOfSeq(ops', i)), <<"clone", "poweron", "snapshot">>)
         /\ Submitted(i, "poweron") => Terminal(tasks[i]) /\ tasks[i].op = "clone"
         /\ (i \in DOMAIN jobs' /\ jobs'[i].pc = "ip" /\ jobs[i].pc # "ip") =>
                /\ Terminal(tasks[i]) /\ tasks[i].op = "poweron"
                /\ tasks'[i].kind = "vm"
         /\ Submitted(i, "snapshot") =>
                /\ jobs[i].pc = "ip"
                /\ tasks[i].kind = "vm" /\ tasks[i].summary /\ tasks[i].ip \in IPs
                /\ instances'[i].ipv4 = tasks[i].ip
         /\ Finishes(i) =>
                /\ Terminal(tasks[i]) /\ tasks[i].op = "snapshot"
                /\ MainOps(OpsOf(i)) = <<"clone", "poweron", "snapshot">>
                /\ instances'[i].vm_state = "VM_RUNNING"
                /\ instances'[i].ipv4 \in IPs
      ]_vars

\* the clone of a resource that did not exist ran to its end
C7_Witness ==
    /\ call = "wait" /\ status = "returned" /\ "a" \in finished
    /\ dispatched["a"] = [kind |-> "clone", state |-> "VM_NON_EXISTENT"]
    /\ OpsOf("a") = <<"clone", "poweron", "snapshot">>
    /\ instances["a"].vm_state = "VM_RUNNING"
    /\ vms["a"].snap = "pristine"

\* ---- C8
WellFormedRecord(r, a) == r = [host |-> a, private |-> [ip |-> a, dns |-> a]]

\* C8: wait_instances returns a record for exactly the instances of the batch
\* that got a workflow, all of which finished during the call; each record is
\* {host: a, private: {ip: a, dns: a}} with a the non-empty address stored as
\* the instance's ipv4.
C8_ReturnedRecords ==
    (call = "wait" /\ status \in {"running", "returned"}) =>
        /\ DOMAIN updated_props = finished
        /\ finished \subseteq {i \in Ids : dispatched[i].kind # "none"}
        /\ status = "returned" => finished = {i \in Ids : dispatched[i].kind # "none"}
        /\ \A i \in DOMAIN updated_props :
               /\ instances[i].ipv4 \in IPs
               /\ WellFormedRecord(updated_props[i], instances[i].ipv4)

\* a batch of two returned a record for the one instance that got a workflow
C8_Witness ==
    /\ call = "wait" /\ status = "returned"
    /\ DOMAIN updated_props = {"a"}
    /\ InBatch("b") /\ dispatched["b"].kind = "none"
    /\ updated_props["a"].private.dns = instances["a"].ipv4


\* ---- C9
\* the power state the Delete workflow of instance i reads at its first send:
\* vm.power_state() of instance['vm'], or of the VM it finds by name
PowerSeen(i) ==
    IF instances[i].vm.kind = "vm" THEN instances[i].vm.power ELSE vms[i].power

DeleteDispatched == {i \in Ids : dispatched[i].kind = "delete"}

CloneOfDirty(i) ==
    /\ call = "wait" /\ status = "running"
    /\ dispatched[i] = [kind |-> "clone", state |-> "VM_DIRTY"]

\* C10: in the bring-up of a DIRTY instance whose name is taken by a
\* resource, the first operation submitted is the power-off of that resource,
\* its delete is submitted when the refreshed power-off task is terminal, and
\* the clone is submitted when the refreshed delete task is terminal, the
\* delete no longer pending on the server; a clone is submitted first only
\* when no resource of that name exists.
C10_RemoveBeforeClone ==
    [][\A i \in Ids : CloneOfDirty(i) =>
         /\ (i \in DOMAIN jobs /\ jobs[i].pc = "start" /\ vms[i].exists) =>
                \A o \in {"delete", "clone", "poweron", "snapshot"} : ~Submitted(i, o)
         /\ Submitted(i, "poweroff") => OpsOf(i) = <<>> /\ vms[i].exists
         /\ Submitted(i, "delete") =>
                /\ OpsOf(i) = <<"poweroff">>
                /\ Terminal(tasks[i]) /\ tasks[i].op = "poweroff"
         /\ Submitted(i, "clone") =>
                \/ OpsOf(i) = <<>> /\ ~vms[i].exists
                \/ /\ OpsOf(i) = <<"poweroff", "delete">>
                   /\ Terminal(tasks[i]) /\ tasks[i].op = "delete"
                   /\ rtask[i].state \in {"success", "error"}
      ]_vars

\* the old resource was powered off and deleted, and then the clone submitted
C10_Witness ==
    /\ call = "wait" /\ dispatched["a"] = [kind |-> "clone", state |-> "VM_DIRTY"]
    /\ IsPrefix(<<"poweroff", "delete", "clone">>, OpsOf("a"))
    /\ status = "returned"


\* ---- C11
RevertOfClean(i) ==
    /\ call = "wait" /\ status = "running"
    /\ dispatched[i] = [kind |-> "revert", state |-> "VM_CLEAN"]

\* C11: the bring-up of a CLEAN instance submits one revert and no other
\* operation, ends with the registry state RUNNING, and the address it stores
\* and returns is the guest address carried by a VM handle that was refreshed
\* after the revert task had become terminal: the workflow finishes from its
\* address poll, resumed with a refreshed VM handle, and not on the revert
\* task with an address that a handle held before the revert.
C11_RevertAddress ==
    [][\A i \in Ids : RevertOfClean(i) =>
         /\ OpsOfSeq(ops', i) \in {<<>>, <<"revert">>}
         /\ Finishes(i) =>
                /\ OpsOf(i) = <<"revert">>
                /\ instances'[i].vm_state = "VM_RUNNING"
                /\ jobs[i].pc = "ip"
                /\ tasks[i].kind = "vm" /\ tasks[i].summary /\ tasks[i].ip \in IPs
                /\ instances'[i].ipv4 = tasks[i].ip
                /\ updated_props'[i] = Record(tasks[i].ip)
      ]_vars


\* ---- C12
\* the step is job.send(tasks[i]) for the workflow of instance i
Resumes(i) ==
    /\ status = "running" /\ loopPc = "resume" /\ todo # <<>> /\ Head(todo) = i
    /\ todo' # todo

\* the workflow at the head of the for loop is about to be sent to for the
\* first time and its precondition does not hold: no base VM for a Clone, no
\* VM handle (none in the registry, none found by name) for the others
PreconditionFails(i) ==
    /\ jobs[i].pc = "start"
    /\ IF jobs[i].kind = "clone"
       THEN ~(BaseOf(i) \in base_vm_cache) /\ ~baseExists[BaseOf(i)]
       ELSE instances[i].vm = NoHandle /\ ~vms[i].exists

\* C12: a failed precondition ends the call with an error in the very step
\* that finds it: the call does not return and hands out no record (its
\* locals, the records of finished workflows included, are gone), nothing is
\* resumed or submitted afterwards in that call, and no remote operation was
\* submitted for the failing instance.
C12_PreconditionFatal ==
    /\ [](status = "error" =>
            /\ DOMAIN jobs = {} /\ DOMAIN tasks = {} /\ todo = <<>>
            /\ DOMAIN updated_props = {})
    /\ [][/\ \A i \in Ids : (Resumes(i) /\ PreconditionFails(i)) =>
                /\ status' = "error"
                /\ OpsOf(i) = <<>> /\ ops' = ops
                /\ rtask' = rtask
                /\ DOMAIN updated_props' = {}
          /\ status = "error" =>
                \/ status' = "error" /\ ops' = ops
                \/ ncalls' = ncalls + 1
         ]_vars

\* a bring-up found no base image for its clone and ended in an error
C12_Witness ==
    /\ call = "wait" /\ status = "error"
    /\ dispatched["a"].kind = "clone"
    /\ ~baseExists[BaseOf("a")]
    /\ ops = <<>>


\* ---- C13
\* what the workflow of instance i does in the step, having been resumed with
\* a terminal task: the next stage of its kind, whatever the task's status
Proceeds(i) ==
    LET k == jobs[i].kind
        pc == jobs[i].pc
    IN CASE k = "clone" /\ pc = "poweroff" -> Submitted(i, "delete")
         [] k = "clone" /\ pc = "delete" -> Submitted(i, "clone")
         [] k = "clone" /\ pc = "clone" -> Submitted(i, "poweron")
         [] k = "clone" /\ pc = "poweron" ->
                \/ Submitted(i, "snapshot")
                \/ ops' = ops /\ i \in DOMAIN jobs' /\ jobs'[i].pc = "ip"
         [] k = "clone" /\ pc = "snapshot" ->
                Finishes(i) /\ instances'[i].vm_state = "VM_RUNNING"
         [] k = "revert" /\ pc = "revert" ->
                \/ Finishes(i) /\ instances'[i].vm_state = "VM_RUNNING"
                \/ ops' = ops /\ i \in DOMAIN jobs' /\ jobs'[i].pc = "ip"
         [] k = "delete" /\ pc = "poweroff" -> Submitted(i, "delete")
         [] k = "delete" /\ pc = "delete" -> Finishes(i)
         [] OTHER -> FALSE

\* C13: a workflow resumed with a task that is not terminal stays where it is
\* and yields the same handle again; resumed with a terminal task it proceeds
\* to its next stage, the same one for 'error' as for 'success', and the call
\* goes on: a task ending in 'error' never makes the call fail.
C13_ErrorIsProgress ==
    [][\A i \in Ids : (Resumes(i) /\ tasks[i].kind = "task") =>
         IF Terminal(tasks[i])
         THEN status' = "running" /\ Proceeds(i)
         ELSE /\ status' = "running" /\ ops' = ops
              /\ jobs' = jobs /\ tasks' = tasks
      ]_vars


\* ---- C14
\* every task submitted for instance i reaches a terminal status
TasksEnd(i) == []<>(rtask[i].state # "running")
\* the resource of instance i, when polled for its address, comes to report one
AddressComes(i) == []<>(~(i \in DOMAIN jobs /\ jobs[i].pc = "ip" /\ vms[i].ip = ""))

Retired(i) ==
    /\ i \in finished /\ i \notin DOMAIN jobs
    /\ call = "wait" =>
           /\ instances[i].vm_state = "VM_RUNNING"
           /\ i \in DOMAIN updated_props /\ updated_props[i].host \in IPs

Sleeps == status = "running" /\ loopPc = "sleep" /\ loopPc' = "top"

\* C16: the loop sleeps after an iteration only when workflows remain
\* active; after the iteration that retires the last one the call returns
\* without a further sleep.
C16_SleepOnlyIfActive ==
    [][Sleeps => DOMAIN jobs # {}]_vars


\* ---- C17
\* C17: the first send to a Clone workflow, its base image found, submits the
\* clone when no resource has the instance's name, the power-off when the
\* resource of that name is powered on, and the delete, without a power-off
\* before it, when that resource is not powered on; a power-off is submitted
\* by a Clone workflow for a powered-on resource only.
C17_PoweroffOnlyIfOn ==
    [][\A i \in Ids :
         (Resumes(i) /\ jobs[i].kind = "clone" /\ jobs[i].pc = "start"
                /\ status' = "running") =>
             /\ ~vms[i].exists => Submitted(i, "clone")
             /\ (vms[i].exists /\ vms[i].power = "poweredOn") => Submitted(i, "poweroff")
             /\ (vms[i].exists /\ vms[i].power # "poweredOn") => Submitted(i, "delete")
             /\ Submitted(i, "poweroff") => vms[i].power = "poweredOn"
      ]_vars


\* ---- C19
UpdateOfRunning(i) ==
    /\ call = "wait" /\ status = "running"
    /\ dispatched[i] = [kind |-> "update", state |-> "VM_RUNNING"]

\* C19: an Update workflow submits no remote operation and leaves the state
\* RUNNING, and the address it stores and wait_instances returns is the one
\* carried by the VM handle it was resumed with, a handle the batched refresh
\* of this call has refreshed: it finishes from its address poll, never at
\* its first send with the address of the handle cached in the registry.
C19_UpdateRefreshes ==
    [][\A i \in Ids : UpdateOfRunning(i) =>
         /\ OpsOfSeq(ops', i) = <<>>
         /\ Finishes(i) =>
                /\ instances'[i].vm_state = "VM_RUNNING"
                /\ jobs[i].pc = "ip"
                /\ tasks[i].kind = "vm" /\ tasks[i].summary /\ tasks[i].ip \in IPs
                /\ instances'[i].ipv4 = tasks[i].ip
                /\ updated_props'[i] = Record(tasks[i].ip)
      ]_vars


\* ---- C20
\* the ids of the sequence q
Range(q) == {q[k] : k \in 1..Len(q)}

\* C20: while a call runs, tasks and jobs have the same keys, and those of the
\* finished workflows are in neither, nor in what is left of the for loop; the
\* entry of a workflow is None until its first send and afterwards a handle of
\* its own instance; the batched refresh at the top of an iteration replaces
\* each entry by its refreshed form and by nothing else; a send changes the
\* entry and the generator of the workflow sent to only, by the handle that
\* workflow yields (the one it was sent, or a new one of its own instance), or
\* removes both when the workflow ends; no other step touches the two maps.
C20_Bookkeeping ==
    /\ [](status = "running" =>
            /\ DOMAIN tasks = DOMAIN jobs
            /\ DOMAIN jobs \cap finished = {}
            /\ Range(todo) \subseteq DOMAIN jobs
            /\ Range(order) = DOMAIN jobs
            /\ \A i \in DOMAIN jobs :
                   /\ tasks[i] = NoHandle <=> jobs[i].pc = "start"
                   /\ tasks[i] # NoHandle => tasks[i].name = i)
    /\ [][status = "running" /\ status' = "running" =>
            /\ IterStep =>
                   /\ DOMAIN tasks = DOMAIN jobs /\ jobs' = jobs
                   /\ \A i \in DOMAIN jobs :
                          tasks'[i] = IF tasks[i] = NoHandle THEN NoHandle
                                      ELSE RefreshOne(tasks[i])
            /\ \A i \in Ids : Resumes(i) =>
                   /\ i \in DOMAIN jobs /\ i \notin finished
                   /\ \A x \in DOMAIN jobs \ {i} :
                          /\ x \in DOMAIN jobs' /\ jobs'[x] = jobs[x]
                          /\ tasks'[x] = tasks[x]
                   /\ IF Finishes(i)
                      THEN /\ i \notin DOMAIN jobs' /\ i \notin DOMAIN tasks'
                           /\ i \notin Range(todo') /\ i \notin Range(order')
                      ELSE /\ i \in DOMAIN jobs'
                           /\ \/ tasks'[i] = tasks[i] /\ tasks[i] # NoHandle
                              \/ \E o \in {"poweroff", "poweron", "delete", "clone",
                                           "revert", "snapshot"} :
                                     Submitted(i, o) /\ tasks'[i] = TaskHandle(i, o)
                              \/ tasks'[i] = jobs'[i].vm /\ tasks'[i].kind = "vm"
                                     /\ tasks'[i].name = i
            /\ (~IterStep /\ \A i \in Ids : ~Resumes(i)) =>
                   jobs' = jobs /\ tasks' = tasks
         ]_vars

\* two workflows in their second iteration, the first one sent to: it holds
\* its own task, the other still the handle the refresh returned for it
C20_Witness ==
    /\ status = "running" /\ loopPc = "resume" /\ todo = <<"b">>
    /\ DOMAIN jobs = {"a", "b"}
    /\ tasks["a"].kind = "task" /\ tasks["a"].op = "poweron"
    /\ tasks["b"].kind = "vm" /\ tasks["b"].summary


\* ---- C18
\* C18: a call holds one workflow for an instance id however often the batch
\* names the id: the id is one key of the jobs dict and is met once in every
\* walk of the for loop; of the generator objects created for the id the call
\* sends to one only, the one its dict holds (the last one created), and
\* every remote operation submitted for the id is submitted in a send to that
\* object; the objects that were replaced in the dict are never sent to and
\* so run no code and submit nothing.
C18_OneWorkflowPerId ==
    /\ [](\A i \in Ids :
            /\ Occurrences(order, i) <= 1 /\ Occurrences(todo, i) <= 1
            /\ Cardinality(sent[i]) <= 1
            /\ sent[i] \subseteq 1..created[i]
            /\ OpsOf(i) # <<>> => sent[i] # {}
            /\ (status = "running" /\ i \in DOMAIN jobs) =>
                   /\ jobs[i].gen = created[i]
                   /\ Occurrences(order, i) = 1
                   /\ jobs[i].pc # "start" => sent[i] = {jobs[i].gen}
            /\ i \in finished => sent[i] = {created[i]})
    /\ [][\A i \in Ids :
            /\ OpsOfSeq(ops', i) # OpsOf(i) /\ ncalls' = ncalls =>
                   Resumes(i) /\ sent'[i] = {jobs[i].gen}
            /\ sent'[i] # sent[i] /\ ncalls' = ncalls =>
                   Resumes(i) /\ sent[i] = {} /\ jobs[i].pc = "start"
         ]_vars

\* a batch named a twice: two Clone generators were created for it, the
\* second one ran to its end and the call returned
C18_Witness ==
    /\ call = "wait" /\ status = "returned"
    /\ created["a"] = 2 /\ sent["a"] = {2}
    /\ "a" \in finished
    /\ OpsOf("a") = <<"clone", "poweron", "snapshot">>
    /\ ~InBatch("b")

====
